---------------------------- MODULE Spec2Model ----------------------------
(***************************************************************************)
(* Support-ticket ingestion backend: the lock service (distributed_locks), *)
(* the ingestion orchestrator (run_ingestion / cancel_job) and the         *)
(* collections they write.  Every store call (one awaited driver call) is  *)
(* one atomic step; coroutines interleave between awaited calls.           *)
(***************************************************************************)
EXTENDS Integers, Sequences, FiniteSets, TLC

(***************************************************************************)
(* Bounds of the model.                                                    *)
(***************************************************************************)
\* run_ingestion requests issued in all, and at most how many are in flight at once
NumJobs == 2
MaxInFlight == 2
\* store and upstream failures injected in all
MaxFaults == 2
\* pages the upstream holds
NumPages == 1
\* how often the clock advances
MaxTicks == 2
\* direct calls of the LockService operations
MaxLockCalls == 3
\* calls of CircuitBreaker.call
MaxBreakerCalls == 5
\* calls of RateLimiter.acquire
MaxAcquires == 4
\* entries recorded in ticket_history
MaxHistory == 2
\* tickets inserted directly into the collection
MaxSeeded == 3
\* the limit the RateLimiter is constructed with
requests_per_minute == 2

(***************************************************************************)
(* Program constants.                                                      *)
(***************************************************************************)
LOCK_TTL_SECONDS == 60

\* granularity of the clock: utcnow() advances in steps of one TTL
TickStep == LOCK_TTL_SECONDS
MaxTime == MaxTicks * TickStep

Tenants == {"tA", "tB"}
\* one run_ingestion request per job; job_id = str(uuid4()) is fresh per request
Jobs == 1 .. NumJobs
\* f"ingest:{tenant_id}"
LockResource(tenant_id) == <<"ingest", tenant_id>>
Resources == {LockResource(t) : t \in Tenants}
\* stands for Python None where a string is expected
None == "None"
\* stands for Python None where a job id is expected
NoJob == 0

VARIABLES
    now,              \* datetime.utcnow(), in seconds
    locks,            \* collection distributed_locks, in natural (insertion) order
    lastCall,         \* the last direct LockService call and what it returned
    ncalls,           \* number of direct LockService calls made
    ingestion_jobs,   \* collection ingestion_jobs, keyed by _id
    ingestion_logs,   \* collection ingestion_logs: per job_id, the status of its entries in insertion order
    tickets,          \* collection tickets, in natural (insertion) order
    ingestion_cache,  \* module-level _ingestion_cache, keyed by cache_key
    pc,               \* position of each run_ingestion coroutine
    tenant,           \* argument tenant_id of each run_ingestion call
    acquired,         \* local `acquired` of each call (None before the call)
    page,             \* local `page`
    pending,          \* tickets of the fetched page not yet processed
    stamp,            \* datetime.utcnow() as evaluated for the update_one in flight
    counters,         \* locals new_ingested, updated, errors
    raising,          \* an exception is propagating out of the try block
    result,           \* what run_ingestion returned ("raised" when it raised)
    response,         \* HTTP status answered by POST /ingest/run
    rivals,           \* jobs of the same tenant in flight past their acquisition when this one acquired
    cancelOk,         \* jobs for which cancel_job returned True
    nfaults,          \* store and upstream failures injected so far
    ticket_history,   \* collection ticket_history, in insertion order
    lastApi,          \* the last call of list_tickets or of a SyncService operation and what it returned
    lastHistory,      \* the last call of record_history or get_ticket_history and what it returned
    lastStats,        \* the last call of get_tenant_stats and what it returned
    cb_state,         \* CircuitBreaker._state
    cb_opened_at,     \* CircuitBreaker._opened_at
    cb_failure_count, \* CircuitBreaker._failure_count
    cb_success_count, \* CircuitBreaker._success_count
    cb_recent_results,   \* CircuitBreaker._recent_results
    cb_half_open_calls,  \* CircuitBreaker._half_open_calls
    lastBreaker,      \* the last use of the breaker and what it did
    offered,          \* what the wrapped function of each call made while CLOSED does: TRUE returns, FALSE raises
    ncbcalls,         \* number of CircuitBreaker.call calls made
    request_times,    \* RateLimiter.request_times
    granted,          \* the times at which acquire() returned 0, in call order
    lastRate,         \* the last use of the rate limiter and what it returned
    nacquires         \* number of RateLimiter.acquire calls made

lockVars == <<locks, lastCall, ncalls>>
storeVars == <<ingestion_jobs, ingestion_logs, tickets, ingestion_cache>>
jobVars == <<pc, tenant, acquired, page, pending, stamp, counters, raising, result, response, rivals, cancelOk>>
apiVars == <<ticket_history, lastApi, lastHistory, lastStats>>
breakerVars == <<cb_state, cb_opened_at, cb_failure_count, cb_success_count,
                 cb_recent_results, cb_half_open_calls, lastBreaker, offered, ncbcalls>>
\* what neither run_ingestion, cancel_job nor the LockService touches
rateVars == <<request_times, granted, lastRate, nacquires>>
nonJobVars == <<apiVars, breakerVars, rateVars>>
vars == <<now, lockVars, storeVars, jobVars, nfaults, nonJobVars>>

(***************************************************************************)
(* LockService (src/services/lock_service.py)                              *)
(***************************************************************************)

\* the first of the document indexes S in natural order, 0 when S is empty
FirstMatch(S) ==
    IF S = {} THEN 0 ELSE CHOOSE i \in S : \A k \in S : i <= k

\* indexes of the documents of coll
Docs(coll) == 1 .. Len(coll)

\* the filter of find_one_and_update in acquire_lock
AcquireFilter(doc, resource_id, t) ==
    /\ doc.resource_id = resource_id
    /\ \/ doc.locked # TRUE
       \/ doc.expires_at < t

\* acquire_lock: one find_one_and_update with upsert=True; the collection has
\* no unique index on resource_id, so the upsert inserts when nothing matches.
\* fault: the driver raised, `except Exception: return False`.
acquire_lock(coll, resource_id, owner_id, t, fault) ==
    IF fault
    THEN [locks |-> coll, ret |-> FALSE]
    ELSE LET Match(n) == AcquireFilter(coll[n], resource_id, t)
             i == FirstMatch({n \in Docs(coll) : Match(n)})
             after == [resource_id |-> resource_id,
                       locked      |-> TRUE,
                       owner_id    |-> owner_id,
                       acquired_at |-> t,
                       expires_at  |-> t + LOCK_TTL_SECONDS]
         IN  [locks |-> IF i = 0 THEN Append(coll, after)
                                 ELSE [coll EXCEPT ![i] = after],
              ret   |-> (after.owner_id = owner_id)]

\* release_lock with the owner_id condition dropped from the update filter
release_lock_any_owner(coll, resource_id, owner_id) ==
    LET Match(n) == coll[n].resource_id = resource_id
        i == FirstMatch({n \in Docs(coll) : Match(n)})
    IN  IF i = 0
        THEN [locks |-> coll, ret |-> FALSE]
        ELSE [locks |-> [coll EXCEPT ![i].locked = FALSE],
              ret   |-> (coll[i].locked # FALSE)]

\* release_lock: update_one on (resource_id, owner_id); modified_count > 0
release_lock(coll, resource_id, owner_id) ==
    LET Match(n) == coll[n].resource_id = resource_id /\ coll[n].owner_id = owner_id
        i == FirstMatch({n \in Docs(coll) : Match(n)})
    IN  IF i = 0
        THEN [locks |-> coll, ret |-> FALSE]
        ELSE [locks |-> [coll EXCEPT ![i].locked = FALSE],
              ret   |-> (coll[i].locked # FALSE)]

\* refresh_lock: update_one on (resource_id, owner_id, locked); modified_count > 0
refresh_lock(coll, resource_id, owner_id, t) ==
    LET Match(n) == /\ coll[n].resource_id = resource_id
                    /\ coll[n].owner_id = owner_id
                    /\ coll[n].locked = TRUE
        i == FirstMatch({n \in Docs(coll) : Match(n)})
    IN  IF i = 0
        THEN [locks |-> coll, ret |-> FALSE]
        ELSE [locks |-> [coll EXCEPT ![i].expires_at = t + LOCK_TTL_SECONDS],
              ret   |-> (coll[i].expires_at # t + LOCK_TTL_SECONDS)]

\* get_lock_status: find_one on resource_id
get_lock_status(coll, resource_id, t) ==
    LET Match(n) == coll[n].resource_id = resource_id
        i == FirstMatch({n \in Docs(coll) : Match(n)})
    IN  IF i = 0
        THEN [found |-> FALSE]
        ELSE [found       |-> TRUE,
              resource_id |-> coll[i].resource_id,
              owner_id    |-> coll[i].owner_id,
              acquired_at |-> coll[i].acquired_at,
              expires_at  |-> coll[i].expires_at,
              is_expired  |-> (t > coll[i].expires_at)]

\* GET /ingest/lock/{tenant_id} (src/api/routes.py): not locked when
\* get_lock_status returns None, else {"locked": not status["is_expired"],
\* **status}
route_get_lock_status(coll, tenant_id, t) ==
    LET status == get_lock_status(coll, LockResource(tenant_id), t)
    IN  IF ~status.found
        THEN [locked |-> FALSE, tenant_id |-> tenant_id]
        ELSE [locked |-> ~status.is_expired, tenant_id |-> tenant_id]


(***************************************************************************)
(* Upstream API as run_ingestion reads it: GET ...?tenant_id=T&page=P      *)
(* answered by a JSON list of ticket payloads, empty past the last page.   *)
(***************************************************************************)
\* the upstream holds one ticket per page
UpstreamTicket(i) ==
    [id         |-> i,
     subject    |-> IF i % 2 = 1 THEN {"refund"} ELSE {"hello"},
     message    |-> IF i % 2 = 1 THEN {"hello"} ELSE {"angry", "lawsuit"},
     status     |-> IF i % 2 = 1 THEN "open" ELSE "closed",
     source     |-> IF i % 2 = 1 THEN "email" ELSE "web",
     updated_at |-> 0]
ExternalIds == 1 .. NumPages
PageOf(p) == IF p \in 1 .. NumPages THEN << UpstreamTicket(p) >> ELSE << >>
\* shapes of an upstream answer: the JSON list above, the JSON object
\* {"tickets": [...], "next_page": ..., "total_count": ...} of mock_server.py,
\* the 429 answer of check_rate_limit (header Retry-After, JSON body
\* {"detail": "Too Many Requests"}), and a transport error
ResponseKinds == {"list", "envelope", "rate_limited", "error"}

(***************************************************************************)
(* ClassifyService.classify(message, subject)                              *)
(***************************************************************************)
classify(message, subject) ==
    LET text == message
    IN  [urgency         |-> IF "refund" \in text \/ "lawsuit" \in text
                             THEN "medium" ELSE "low",
         sentiment       |-> IF "angry" \in text \/ "broken" \in text
                             THEN "negative" ELSE "neutral",
         requires_action |-> FALSE]

(***************************************************************************)
(* IngestService (src/services/ingest_service.py)                          *)
(***************************************************************************)
NoResult == [status |-> "none", job_id |-> NoJob,
             new_ingested |-> 0, updated |-> 0, errors |-> 0]
ZeroCounters == [new_ingested |-> 0, updated |-> 0, errors |-> 0]

\* positions between the acquisition and the release of the lock
Holding == {"insert_job", "fetch", "upsert", "except", "finally"}

\* the document update_one(..., upsert=True) leaves for one upstream ticket
TicketDoc(tenant_id, ticket, t) ==
    LET classification == classify(ticket.subject, ticket.message)
    IN  [tenant_id       |-> tenant_id,
         external_id     |-> ticket.id,
         subject         |-> ticket.subject,
         message         |-> ticket.message,
         status          |-> ticket.status,
         source          |-> ticket.source,
         urgency         |-> classification.urgency,
         sentiment       |-> classification.sentiment,
         requires_action |-> classification.requires_action,
         updated_at      |-> t]

\* the filter of update_one in the page loop
TicketFilter(doc, tenant_id, external_id) ==
    doc.tenant_id = tenant_id /\ doc.external_id = external_id

\* the page loop's write with a filter that matches no stored document, so
\* that every call inserts
upsert_ticket_never_matching(coll, tenant_id, ticket, t) ==
    LET doc == TicketDoc(tenant_id, ticket, t)
    IN  [tickets  |-> Append(coll, doc),
         upserted |-> TRUE,
         modified |-> FALSE]

\* update_one(filter, {"$set": ...}, upsert=True) of the page loop:
\* upserted_id is set when nothing matched, modified_count > 0 when the
\* matched document changed
upsert_ticket(coll, tenant_id, ticket, t) ==
    LET Match(n) == TicketFilter(coll[n], tenant_id, ticket.id)
        i == FirstMatch({n \in Docs(coll) : Match(n)})
        doc == TicketDoc(tenant_id, ticket, t)
    IN  [tickets  |-> IF i = 0 THEN Append(coll, doc) ELSE [coll EXCEPT ![i] = doc],
         upserted |-> (i = 0),
         modified |-> (i # 0 /\ coll[i] # doc)]

\* a driver or upstream call either works or raises; failures are counted
Inject(fault) ==
    /\ fault => nfaults < MaxFaults
    /\ nfaults' = IF fault THEN nfaults + 1 ELSE nfaults

\* the run_ingestion calls that have started and not yet returned or raised
InFlight == {k \in Jobs : pc[k] \notin {"idle", "done"}}

\* run_ingestion with the early return `if not acquired` left out
AcquireStep_no_early_return(j, t, fault) ==
    /\ pc[j] = "idle"
    /\ Inject(fault)
    /\ Cardinality(InFlight) < MaxInFlight
    /\ LET res == acquire_lock(locks, LockResource(t), j, now, fault)
       IN  /\ locks' = res.locks
           /\ tenant' = [tenant EXCEPT ![j] = t]
           /\ acquired' = [acquired EXCEPT ![j] = res.ret]
           /\ rivals' = [rivals EXCEPT ![j] =
                  {k \in Jobs \ {j} : tenant[k] = t /\ pc[k] \in Holding /\ acquired[k]}]
           /\ pc' = [pc EXCEPT ![j] = "insert_job"]
           /\ UNCHANGED <<result, response>>
    /\ UNCHANGED <<now, lastCall, ncalls, storeVars, page, pending, stamp, counters,raising, cancelOk>>
    /\ UNCHANGED nonJobVars

\* lines 33-56: job_id = str(uuid4()); acquire_lock; return already_running
AcquireStep(j, t, fault) ==
    /\ pc[j] = "idle"
    /\ Inject(fault)
    /\ Cardinality(InFlight) < MaxInFlight
    /\ LET res == acquire_lock(locks, LockResource(t), j, now, fault)
       IN  /\ locks' = res.locks
           /\ tenant' = [tenant EXCEPT ![j] = t]
           /\ acquired' = [acquired EXCEPT ![j] = res.ret]
           /\ rivals' = [rivals EXCEPT ![j] =
                  {k \in Jobs \ {j} : tenant[k] = t /\ pc[k] \in Holding /\ acquired[k]}]
           /\ IF res.ret
              THEN /\ pc' = [pc EXCEPT ![j] = "insert_job"]
                   /\ UNCHANGED <<result, response>>
              ELSE /\ pc' = [pc EXCEPT ![j] = "done"]
                   /\ result' = [result EXCEPT ![j] =
                          [status |-> "already_running", job_id |-> NoJob,
                           new_ingested |-> 0, updated |-> 0, errors |-> 0]]
                   /\ response' = [response EXCEPT ![j] = 200]
    /\ UNCHANGED <<now, lastCall, ncalls, storeVars, page, pending, stamp, counters,raising, cancelOk>>
    /\ UNCHANGED nonJobVars

\* lines 58-90: insert the job record, add the cache entry, zero the counters.
\* fault: insert_one raised; the exception leaves run_ingestion (no try here).
InsertJob(j, fault) ==
    /\ pc[j] = "insert_job"
    /\ Inject(fault)
    /\ IF fault
       THEN /\ pc' = [pc EXCEPT ![j] = "done"]
            /\ result' = [result EXCEPT ![j] = [NoResult EXCEPT !.status = "raised"]]
            /\ response' = [response EXCEPT ![j] = 500]
            /\ UNCHANGED <<ingestion_jobs, ingestion_cache, page, counters>>
       ELSE /\ ingestion_jobs' = (j :> [tenant_id |-> tenant[j], status |-> "running",
                                        processed_pages |-> 0]) @@ ingestion_jobs
            /\ ingestion_cache' = (<<tenant[j], now>> :> [job_id |-> j, tickets |-> << >>,
                                                          started_at |-> now]) @@ ingestion_cache
            /\ page' = [page EXCEPT ![j] = 1]
            /\ counters' = [counters EXCEPT ![j] = ZeroCounters]
            /\ pc' = [pc EXCEPT ![j] = "fetch"]
            /\ UNCHANGED <<result, response>>
    /\ UNCHANGED <<now, lockVars, ingestion_logs, tickets, tenant, acquired, pending,
                   stamp, raising, rivals, cancelOk>>
    /\ UNCHANGED nonJobVars

\* lines 103-124: client.get, resp.json(), `if not tickets: break`; the
\* status code and the headers of the answer are not read.  A JSON object
\* (the envelope, the body of a 429) is truthy and iterating it yields its
\* keys, so ticket["subject"] raises on the first of them.  No await separates the answer from the
\* call of update_one for the first ticket: its arguments, datetime.utcnow()
\* among them, are evaluated in this step.
FetchPage(j, kind) ==
    /\ pc[j] = "fetch"
    /\ Inject(kind # "list")
    /\ IF kind = "list"
       THEN IF PageOf(page[j]) = << >>
            THEN /\ pc' = [pc EXCEPT ![j] = "finally"]
                 /\ UNCHANGED <<pending, stamp>>
            ELSE /\ pc' = [pc EXCEPT ![j] = "upsert"]
                 /\ pending' = [pending EXCEPT ![j] = PageOf(page[j])]
                 /\ stamp' = [stamp EXCEPT ![j] = now]
       ELSE /\ pc' = [pc EXCEPT ![j] = "except"]
            /\ UNCHANGED <<pending, stamp>>
    /\ UNCHANGED <<now, lockVars, storeVars, tenant, acquired, page, counters, raising,
                   result, response, rivals, cancelOk>>
    /\ UNCHANGED nonJobVars

\* lines 111-134: the store applies update_one(upsert=True) and the coroutine
\* counts; then the arguments of the next ticket's update_one are evaluated,
\* or page += 1 after the last ticket.  fault: the payload lacks a key or the
\* store raised.
UpsertTicket(j, fault) ==
    /\ pc[j] = "upsert"
    /\ Inject(fault)
    /\ IF fault
       THEN /\ pc' = [pc EXCEPT ![j] = "except"]
            /\ UNCHANGED <<tickets, counters, pending, stamp, page>>
       ELSE LET res == upsert_ticket(tickets, tenant[j], Head(pending[j]), stamp[j])
            IN  /\ tickets' = res.tickets
                /\ counters' = [counters EXCEPT ![j] =
                       IF res.upserted THEN [@ EXCEPT !.new_ingested = @ + 1]
                       ELSE IF res.modified THEN [@ EXCEPT !.updated = @ + 1]
                       ELSE @]
                /\ pending' = [pending EXCEPT ![j] = Tail(@)]
                /\ IF Tail(pending[j]) = << >>
                   THEN /\ page' = [page EXCEPT ![j] = @ + 1]
                        /\ pc' = [pc EXCEPT ![j] = "fetch"]
                        /\ UNCHANGED stamp
                   ELSE /\ stamp' = [stamp EXCEPT ![j] = now]
                        /\ UNCHANGED <<page, pc>>
    /\ UNCHANGED <<now, lockVars, ingestion_jobs, ingestion_logs, ingestion_cache, tenant,
                   acquired, raising, result, response, rivals, cancelOk>>
    /\ UNCHANGED nonJobVars

\* lines 137-150: except Exception: insert the failure log, re-raise.
\* fault: the log insert itself raised.
WriteFailureLog(j, fault) ==
    /\ pc[j] = "except"
    /\ Inject(fault)
    /\ ingestion_logs' = IF fault THEN ingestion_logs
                         ELSE [ingestion_logs EXCEPT ![j] = Append(@, "failed")]
    /\ raising' = [raising EXCEPT ![j] = TRUE]
    /\ pc' = [pc EXCEPT ![j] = "finally"]
    /\ UNCHANGED <<now, lockVars, ingestion_jobs, tickets, ingestion_cache, tenant, acquired,
                   page, pending, stamp, counters,result, response, rivals, cancelOk>>
    /\ UNCHANGED nonJobVars

\* lines 151-156: finally: release_lock; a propagating exception leaves here
ReleaseInFinally(j) ==
    /\ pc[j] = "finally"
    /\ locks' = release_lock(locks, LockResource(tenant[j]), j).locks
    /\ IF raising[j]
       THEN /\ pc' = [pc EXCEPT ![j] = "done"]
            /\ result' = [result EXCEPT ![j] = [NoResult EXCEPT !.status = "raised"]]
            /\ response' = [response EXCEPT ![j] = 500]
       ELSE /\ pc' = [pc EXCEPT ![j] = "complete"]
            /\ UNCHANGED <<result, response>>
    /\ UNCHANGED <<nfaults, now, lastCall, ncalls, storeVars, tenant, acquired, page, pending,
                   stamp, counters, raising, rivals, cancelOk>>
    /\ UNCHANGED nonJobVars

\* lines 158-162: update_one({"_id": job_id}, status completed)
CompleteJob(j) ==
    /\ pc[j] = "complete"
    /\ ingestion_jobs' = [ingestion_jobs EXCEPT ![j].status = "completed"]
    /\ pc' = [pc EXCEPT ![j] = "log"]
    /\ UNCHANGED <<nfaults, now, lockVars, ingestion_logs, tickets, ingestion_cache, tenant, acquired,
                   page, pending, stamp, counters,raising, result, response, rivals, cancelOk>>
    /\ UNCHANGED nonJobVars

\* lines 164-181 and routes.run_ingestion: completion log, return, HTTP 200
LogCompleted(j) ==
    /\ pc[j] = "log"
    /\ ingestion_logs' = [ingestion_logs EXCEPT ![j] = Append(@, "completed")]
    /\ pc' = [pc EXCEPT ![j] = "done"]
    /\ result' = [result EXCEPT ![j] =
           [status |-> "completed", job_id |-> j,
            new_ingested |-> counters[j].new_ingested,
            updated |-> counters[j].updated,
            errors |-> counters[j].errors]]
    /\ response' = [response EXCEPT ![j] = 200]
    /\ UNCHANGED <<nfaults, now, lockVars, ingestion_jobs, tickets, ingestion_cache, tenant, acquired,
                   page, pending, stamp, counters,raising, rivals, cancelOk>>
    /\ UNCHANGED nonJobVars

\* cancel_job: update_one({"_id": job_id, "status": "running"}, cancelled)
cancel_job(j) ==
    /\ j \in DOMAIN ingestion_jobs
    /\ IF ingestion_jobs[j].status = "running"
       THEN /\ ingestion_jobs' = [ingestion_jobs EXCEPT ![j].status = "cancelled"]
            /\ cancelOk' = cancelOk \cup {j}
       ELSE UNCHANGED <<ingestion_jobs, cancelOk>>
    /\ UNCHANGED <<nfaults, now, lockVars, ingestion_logs, tickets, ingestion_cache, pc, tenant,
                   acquired, page, pending, stamp, counters,raising, result, response, rivals>>
    /\ UNCHANGED nonJobVars

\* time passes
Tick ==
    /\ now < MaxTime
    /\ now' = now + TickStep
    /\ UNCHANGED <<lockVars, storeVars, jobVars, nfaults>>
    /\ UNCHANGED nonJobVars

(***************************************************************************)
(* GET /tickets (src/api/routes.py) and SyncService                        *)
(* (src/services/sync_service.py)                                          *)
(***************************************************************************)
\* doc.get(field)
Get(doc, field) == IF field \in DOMAIN doc THEN doc[field] ELSE None

\* the query of list_tickets: only the filters given are added to it
ListQuery(doc, status, urgency, source) ==
    /\ status # None => doc.status = status
    /\ urgency # None => doc.urgency = urgency
    /\ source # None => doc.source = source

\* list_tickets: find(query).skip((page - 1) * page_size).limit(page_size)
list_tickets(coll, tenant_id, status, urgency, source, page_no, page_size) ==
    LET found == SelectSeq(coll, LAMBDA doc : ListQuery(doc, status, urgency, source))
        first == (page_no - 1) * page_size + 1
        last  == IF page_no * page_size < Len(found) THEN page_no * page_size ELSE Len(found)
    IN  SubSeq(found, first, last)

\* sync_ticket: returns unchanged for every input and writes nothing
sync_ticket(external_ticket, tenant_id) ==
    [action    |-> "unchanged",
     ticket_id |-> Get(external_ticket, "id"),
     changes   |-> << >>]

\* mark_deleted: returns 0 for every input and writes nothing
mark_deleted(tenant_id, external_ids) == 0

\* detect_deleted_tickets: returns [] for every input
detect_deleted_tickets(tenant_id, external_ids) == {}

\* compute_changes: the fields whose values differ, each with old and new
compute_changes(old_doc, new_doc, fields) ==
    LET changed == {f \in fields : Get(old_doc, f) # Get(new_doc, f)}
    IN  [f \in changed |-> [old |-> Get(old_doc, f), new |-> Get(new_doc, f)]]

\* the filter and paging arguments tried on GET /tickets
StatusFilters == {None, "open"}
UrgencyFilters == {None, "medium"}
SourceFilters == {None, "email"}
ListPages == {1, 2}
PageSizes == {1, 20}
\* the updated_at values an upstream payload carries
PayloadTimes == {0, TickStep}
\* payloads handed to sync_ticket: an upstream ticket, its subject possibly edited
SyncPayloads ==
    {[UpstreamTicket(i) EXCEPT !.updated_at = u, !.subject = s] :
        i \in ExternalIds, u \in PayloadTimes, s \in {{"refund"}, {"broken"}}}

NoApi == [seq |-> 0, op |-> "none", tenant_id |-> None, arg |-> None, ret |-> None]

ListTickets(t, status, urgency, source, page_no, page_size) ==
    /\ lastApi' = [seq |-> 1 - lastApi.seq, op |-> "list_tickets", tenant_id |-> t,
                   arg |-> None,
                   ret |-> list_tickets(tickets, t, status, urgency, source, page_no, page_size)]
    /\ UNCHANGED <<now, lockVars, storeVars, jobVars, nfaults, ticket_history, lastHistory, lastStats,
                   breakerVars, rateVars>>

SyncTicket(external_ticket, t) ==
    /\ lastApi' = [seq |-> 1 - lastApi.seq, op |-> "sync_ticket", tenant_id |-> t,
                   arg |-> external_ticket,
                   ret |-> sync_ticket(external_ticket, t)]
    /\ UNCHANGED <<now, lockVars, storeVars, jobVars, nfaults, ticket_history, lastHistory, lastStats,
                   breakerVars, rateVars>>

DetectDeleted(t, external_ids) ==
    /\ lastApi' = [seq |-> 1 - lastApi.seq, op |-> "detect_deleted_tickets", tenant_id |-> t,
                   arg |-> external_ids,
                   ret |-> detect_deleted_tickets(t, external_ids)]
    /\ UNCHANGED <<now, lockVars, storeVars, jobVars, nfaults, ticket_history, lastHistory, lastStats,
                   breakerVars, rateVars>>

MarkDeleted(t, external_ids) ==
    /\ lastApi' = [seq |-> 1 - lastApi.seq, op |-> "mark_deleted", tenant_id |-> t,
                   arg |-> external_ids,
                   ret |-> mark_deleted(t, external_ids)]
    /\ UNCHANGED <<now, lockVars, storeVars, jobVars, nfaults, ticket_history, lastHistory, lastStats,
                   breakerVars, rateVars>>

\* the ticket whose history is recorded and read
HistoryTickets == {1}
HistoryActions == {"created", "updated", "deleted"}
\* the changes handed to record_history with an action: one changed field for
\* an update, none otherwise
ChangesOf(action) ==
    IF action = "updated"
    THEN {[field |-> "subject", old |-> {"refund"}, new |-> {"broken"}]}
    ELSE {}
\* the limit arguments tried on get_ticket_history (default 50)
HistoryLimits == {1, 50}

NoHistoryUse == [seq |-> 0, op |-> "none", ticket_id |-> 0, tenant_id |-> None, ret |-> << >>]

\* record_history with the new entry put in front of the collection
record_history_prepending(coll, ticket_id, tenant_id, action, changes, t) ==
    << [ticket_id   |-> ticket_id,
        tenant_id   |-> tenant_id,
        action      |-> action,
        changes     |-> changes,
        recorded_at |-> t] >> \o coll

\* record_history: insert_one of the history document, recorded_at = utcnow()
record_history(coll, ticket_id, tenant_id, action, changes, t) ==
    Append(coll, [ticket_id   |-> ticket_id,
                  tenant_id   |-> tenant_id,
                  action      |-> action,
                  changes     |-> changes,
                  recorded_at |-> t])

\* sort("recorded_at", -1) of a sequence of entries: the entry put at position
\* k is the one with k - 1 entries before it in descending recorded_at order
\* (entries of equal recorded_at in their stored order)
sort_recorded_at_desc(entries) ==
    LET Before(a, b) == \/ entries[a].recorded_at > entries[b].recorded_at
                        \/ entries[a].recorded_at = entries[b].recorded_at /\ a < b
        Rank(a) == Cardinality({b \in 1 .. Len(entries) : Before(b, a)}) + 1
    IN  [k \in 1 .. Len(entries) |->
            entries[CHOOSE a \in 1 .. Len(entries) : Rank(a) = k]]

\* get_ticket_history: find(ticket_id, tenant_id).sort(recorded_at, -1).limit(limit)
get_ticket_history(coll, ticket_id, tenant_id, limit) ==
    LET found == SelectSeq(coll, LAMBDA h : h.ticket_id = ticket_id /\ h.tenant_id = tenant_id)
        sorted == sort_recorded_at_desc(found)
    IN  SubSeq(sorted, 1, IF limit < Len(sorted) THEN limit ELSE Len(sorted))

RecordHistory(ticket_id, t, action, changes) ==
    /\ Len(ticket_history) < MaxHistory
    /\ ticket_history' = record_history(ticket_history, ticket_id, t, action, changes, now)
    /\ lastHistory' = [seq |-> 1 - lastHistory.seq, op |-> "record_history",
                       ticket_id |-> ticket_id, tenant_id |-> t, ret |-> << >>]
    /\ UNCHANGED <<now, lockVars, storeVars, jobVars, nfaults, lastApi, lastStats,
                   breakerVars, rateVars>>

GetTicketHistory(ticket_id, t, limit) ==
    /\ lastHistory' = [seq |-> 1 - lastHistory.seq, op |-> "get_ticket_history",
                       ticket_id |-> ticket_id, tenant_id |-> t,
                       ret |-> get_ticket_history(ticket_history, ticket_id, t, limit)]
    /\ UNCHANGED <<now, lockVars, storeVars, jobVars, nfaults, ticket_history, lastApi,
                   lastStats, breakerVars, rateVars>>

(***************************************************************************)
(* AnalyticsService (src/services/analytics_service.py); the hourly_trend  *)
(* facet, which reads created_at only, is left out                         *)
(***************************************************************************)
\* the tickets inserted directly into the collection (insert_many), with the
\* status and urgency values of the seeded documents and, for a soft-deleted
\* ticket, its deleted_at
SeedStatuses == {"open", "closed"}
SeedUrgencies == {"high", "low"}
SeedDocs(external_id) ==
    {[tenant_id |-> t, external_id |-> external_id, status |-> s, urgency |-> u] :
        t \in Tenants, s \in SeedStatuses, u \in SeedUrgencies}
    \cup
    {[tenant_id |-> t, external_id |-> external_id, status |-> s, urgency |-> u,
      deleted_at |-> 0] :
        t \in Tenants, s \in SeedStatuses, u \in SeedUrgencies}

\* {field: None} in a query matches a document whose field is null or
\* missing; no document of the model stores an explicit null
IsNull(doc, field) == field \notin DOMAIN doc

\* a ratio num / den, kept exact
Ratio(num, den) == [num |-> num, den |-> den]
\* 0.0
ZeroRatio == Ratio(0, 1)

\* {"$group": {"_id": "$<field>", "count": {"$sum": 1}}}: one group per value
group_count(docs, field) ==
    LET values == {Get(docs[n], field) : n \in 1 .. Len(docs)}
    IN  [v \in values |-> Cardinality({n \in 1 .. Len(docs) : Get(docs[n], field) = v})]

\* the pipeline of get_tenant_stats with the $match stage reduced to
\* deleted_at: None
get_tenant_stats_all_tenants(coll, tenant_id) ==
    LET matched == SelectSeq(coll, LAMBDA doc : IsNull(doc, "deleted_at"))
        total == IF Len(matched) = 0 THEN << >> ELSE << [count |-> Len(matched)] >>
        by_status == group_count(matched, "status")
        by_urgency == group_count(matched, "urgency")
        high == IF "high" \in DOMAIN by_urgency THEN by_urgency["high"] ELSE 0
    IN  [total_tickets      |-> IF total = << >> THEN 0 ELSE total[1].count,
         by_status          |-> by_status,
         urgency_high_ratio |-> IF total # << >> /\ total[1].count > 0
                                THEN Ratio(high, total[1].count)
                                ELSE ZeroRatio]

\* the pipeline of get_tenant_stats: $match on tenant_id and deleted_at: None
\* (null or missing), $facet (total by $count, which emits nothing for an
\* empty input; by_status and by_urgency by $group), $project
get_tenant_stats(coll, tenant_id) ==
    LET matched == SelectSeq(coll, LAMBDA doc : /\ doc.tenant_id = tenant_id
                                                /\ IsNull(doc, "deleted_at"))
        total == IF Len(matched) = 0 THEN << >> ELSE << [count |-> Len(matched)] >>
        by_status == group_count(matched, "status")
        by_urgency == group_count(matched, "urgency")
        high == IF "high" \in DOMAIN by_urgency THEN by_urgency["high"] ELSE 0
    IN  [total_tickets      |-> IF total = << >> THEN 0 ELSE total[1].count,
         by_status          |-> by_status,
         urgency_high_ratio |-> IF total # << >> /\ total[1].count > 0
                                THEN Ratio(high, total[1].count)
                                ELSE ZeroRatio]

NoStatsUse == [seq |-> 0, tenant_id |-> None, ret |-> get_tenant_stats(<< >>, None)]

\* db.tickets.insert_many of a document; external_id is new to the collection
\* (unique index idx_tenant_external_unique)
SeedTicket(doc) ==
    /\ Len(tickets) < MaxSeeded
    /\ doc \in SeedDocs(Len(tickets) + 1)
    /\ tickets' = Append(tickets, doc)
    /\ UNCHANGED <<ingestion_jobs, ingestion_logs, ingestion_cache>>
    /\ UNCHANGED <<now, lockVars, jobVars, nfaults, nonJobVars>>

\* GET /tenants/{tenant_id}/stats
GetTenantStats(t) ==
    /\ lastStats' = [seq |-> 1 - lastStats.seq, tenant_id |-> t,
                     ret |-> get_tenant_stats(tickets, t)]
    /\ UNCHANGED <<now, lockVars, storeVars, jobVars, nfaults, ticket_history, lastApi,
                   lastHistory, breakerVars, rateVars>>

InitApi ==
    /\ ticket_history = << >>
    /\ lastApi = NoApi
    /\ lastHistory = NoHistoryUse
    /\ lastStats = NoStatsUse

(***************************************************************************)
(* CircuitBreaker (src/services/circuit_breaker.py), one instance with the *)
(* default CircuitBreakerConfig                                            *)
(***************************************************************************)
failure_threshold == 5
success_threshold == 1
window_size == 10
timeout_seconds == 30
half_open_max_calls == 1

\* stands for Python None where a time is expected
NoTime == 0
\* time.time() when the model starts: seconds since the epoch, positive
ProcessStart == 1
\* time.time()
time_time == ProcessStart + now

\* how long ago a forced OPEN state is said to have opened
ForcedAges == {0, timeout_seconds}
\* what the function handed to call does when it is invoked
FnKinds == {"ok", "raises"}

\* under_lock: whether the operation made its reads and writes of the
\* breaker's attributes while holding self._lock (the asyncio.Lock of line
\* 73); no method of the class acquires it
NoBreakerUse ==
    [seq |-> 0, op |-> "none", fn |-> None, invoked |-> FALSE, outcome |-> None,
     retry_after |-> NoTime, state_before |-> None, opened_before |-> NoTime, at |-> NoTime,
     under_lock |-> FALSE]

\* the last n elements of a sequence
LastN(s, n) == IF Len(s) <= n THEN s ELSE SubSeq(s, Len(s) - n + 1, Len(s))

\* property `state`: OPEN turns HALF_OPEN once the timeout has elapsed
state_after_read(st, opened_at, t) ==
    IF st = "open" /\ opened_at # NoTime /\ t - opened_at >= timeout_seconds
    THEN "half_open" ELSE st

\* reading cb.state (directly or through get_status): a plain property, no
\* `async with self._lock`
BreakerState ==
    /\ cb_state' = state_after_read(cb_state, cb_opened_at, time_time)
    /\ cb_half_open_calls' = IF cb_state' # cb_state THEN 0 ELSE cb_half_open_calls
    /\ lastBreaker' = [NoBreakerUse EXCEPT !.seq = 1 - lastBreaker.seq,
                                           !.op = "state",
                                           !.under_lock = FALSE,
                                           !.outcome = cb_state',
                                           !.state_before = cb_state,
                                           !.opened_before = cb_opened_at,
                                           !.at = time_time]
    /\ UNCHANGED <<cb_opened_at, cb_failure_count, cb_success_count, cb_recent_results,
                   offered, ncbcalls>>
    /\ UNCHANGED <<now, lockVars, storeVars, jobVars, nfaults, apiVars, rateVars>>

\* call(func): the body is `pass`: func is not invoked, nothing is recorded,
\* nothing is raised and None is returned
BreakerCall(fn) ==
    /\ ncbcalls < MaxBreakerCalls
    /\ ncbcalls' = ncbcalls + 1
    /\ lastBreaker' = [NoBreakerUse EXCEPT !.seq = 1 - lastBreaker.seq,
                                           !.op = "call",
                                           !.fn = fn,
                                           !.invoked = FALSE,
                                           !.outcome = "returned None",
                                           !.state_before = cb_state,
                                           !.opened_before = cb_opened_at,
                                           !.at = time_time]
    /\ offered' = IF cb_state = "closed"
                  THEN LastN(Append(offered, fn = "ok"), window_size)
                  ELSE offered
    /\ UNCHANGED <<cb_state, cb_opened_at, cb_failure_count, cb_success_count,
                   cb_recent_results, cb_half_open_calls>>
    /\ UNCHANGED <<now, lockVars, storeVars, jobVars, nfaults, apiVars, rateVars>>

\* reset(): plain assignments, no `async with self._lock`
BreakerReset ==
    /\ cb_state' = "closed"
    /\ cb_failure_count' = 0
    /\ cb_success_count' = 0
    /\ cb_opened_at' = NoTime
    /\ cb_recent_results' = << >>
    /\ cb_half_open_calls' = 0
    /\ offered' = << >>
    /\ lastBreaker' = [NoBreakerUse EXCEPT !.seq = 1 - lastBreaker.seq,
                                           !.op = "reset",
                                           !.under_lock = FALSE,
                                           !.state_before = cb_state,
                                           !.opened_before = cb_opened_at,
                                           !.at = time_time]
    /\ UNCHANGED ncbcalls
    /\ UNCHANGED <<now, lockVars, storeVars, jobVars, nfaults, apiVars, rateVars>>

\* the tests put the breaker into OPEN (with _opened_at now or a timeout ago)
\* or HALF_OPEN by assigning the attributes
ForceState(st, age) ==
    /\ st \in {"open", "half_open"}
    /\ time_time - age > 0
    /\ cb_state' = st
    /\ cb_opened_at' = IF st = "open" THEN time_time - age ELSE cb_opened_at
    /\ lastBreaker' = [NoBreakerUse EXCEPT !.seq = 1 - lastBreaker.seq,
                                           !.op = "force",
                                           !.state_before = cb_state,
                                           !.opened_before = cb_opened_at,
                                           !.at = time_time]
    /\ UNCHANGED <<cb_failure_count, cb_success_count, cb_recent_results,
                   cb_half_open_calls, offered, ncbcalls>>
    /\ UNCHANGED <<now, lockVars, storeVars, jobVars, nfaults, apiVars, rateVars>>

InitBreaker ==
    /\ cb_state = "closed"
    /\ cb_failure_count = 0
    /\ cb_success_count = 0
    /\ cb_opened_at = NoTime
    /\ cb_recent_results = << >>
    /\ cb_half_open_calls = 0
    /\ lastBreaker = NoBreakerUse
    /\ offered = << >>
    /\ ncbcalls = 0

(***************************************************************************)
(* RateLimiter (src/services/rate_limiter.py), one instance                *)
(***************************************************************************)
window_seconds == 60

\* the four observables of get_status
NoRateStatus == [limit |-> 0, window_seconds |-> 0, current_requests |-> 0, remaining |-> 0]
\* wait: what acquire() returned; status: what get_status() returned
NoRateUse == [seq |-> 0, op |-> "none", wait |-> 0, status |-> NoRateStatus, at |-> NoTime]

\* the entries of a sequence of times that get_status keeps at time t: it
\* drops from the left while t - times[0] > window_seconds
drop_old(times, t) ==
    LET keep == {i \in 1 .. Len(times) :
                   \E k \in 1 .. i : ~(t - times[k] > window_seconds)}
    IN  IF keep = {} THEN << >>
        ELSE SubSeq(times, FirstMatch(keep), Len(times))

\* acquire(): returns 0 for every call and records nothing
RateAcquire ==
    /\ nacquires < MaxAcquires
    /\ nacquires' = nacquires + 1
    /\ lastRate' = [NoRateUse EXCEPT !.seq = 1 - lastRate.seq, !.op = "acquire",
                                      !.wait = 0, !.at = time_time]
    /\ granted' = Append(granted, time_time)
    /\ UNCHANGED request_times
    /\ UNCHANGED <<now, lockVars, storeVars, jobVars, nfaults, apiVars, breakerVars>>

\* get_status(): drops the recorded requests that left the window, then
\* reports the number of those remaining
RateStatus ==
    /\ request_times' = drop_old(request_times, time_time)
    /\ lastRate' = [NoRateUse EXCEPT
           !.seq = 1 - lastRate.seq, !.op = "get_status", !.at = time_time,
           !.status = [limit            |-> requests_per_minute,
                       window_seconds   |-> window_seconds,
                       current_requests |-> Len(request_times'),
                       remaining        |->
                           IF requests_per_minute - Len(request_times') > 0
                           THEN requests_per_minute - Len(request_times') ELSE 0]]
    /\ UNCHANGED <<granted, nacquires>>
    /\ UNCHANGED <<now, lockVars, storeVars, jobVars, nfaults, apiVars, breakerVars>>

InitRate ==
    /\ request_times = << >>
    /\ granted = << >>
    /\ lastRate = NoRateUse
    /\ nacquires = 0

EmptyFunction == [x \in {} |-> 0]

InitStore ==
    /\ ingestion_jobs = EmptyFunction
    /\ ingestion_logs = [j \in Jobs |-> << >>]
    /\ tickets = << >>
    /\ ingestion_cache = EmptyFunction

InitJobs ==
    /\ pc = [j \in Jobs |-> "idle"]
    /\ tenant = [j \in Jobs |-> None]
    /\ acquired = [j \in Jobs |-> FALSE]
    /\ page = [j \in Jobs |-> 0]
    /\ pending = [j \in Jobs |-> << >>]
    /\ stamp = [j \in Jobs |-> 0]
    /\ counters = [j \in Jobs |-> ZeroCounters]
    /\ raising = [j \in Jobs |-> FALSE]
    /\ result = [j \in Jobs |-> NoResult]
    /\ response = [j \in Jobs |-> 0]
    /\ rivals = [j \in Jobs |-> {}]
    /\ cancelOk = {}

InitLocks ==
    /\ locks = << >>
    /\ lastCall = [op |-> "none", resource_id |-> LockResource(None), owner_id |-> NoJob,
                   ret |-> FALSE, at |-> 0, status |-> [found |-> FALSE]]
    /\ ncalls = 0

Init ==
    /\ now = 0
    /\ nfaults = 0
    /\ InitLocks
    /\ InitStore
    /\ InitJobs
    /\ InitApi
    /\ InitBreaker
    /\ InitRate

\* direct calls of the LockService operations by any owner
NoStatus == [found |-> FALSE]

LockAcquire(r, o, fault) ==
    /\ ncalls < MaxLockCalls
    /\ Inject(fault)
    /\ LET res == acquire_lock(locks, r, o, now, fault)
       IN  /\ locks' = res.locks
           /\ lastCall' = [op |-> "acquire", resource_id |-> r, owner_id |-> o,
                           ret |-> res.ret, at |-> now, status |-> NoStatus]
    /\ ncalls' = ncalls + 1
    /\ UNCHANGED <<now, storeVars, jobVars>>
    /\ UNCHANGED nonJobVars

LockRelease(r, o) ==
    /\ ncalls < MaxLockCalls
    /\ LET res == release_lock(locks, r, o)
       IN  /\ locks' = res.locks
           /\ lastCall' = [op |-> "release", resource_id |-> r, owner_id |-> o,
                           ret |-> res.ret, at |-> now, status |-> NoStatus]
    /\ ncalls' = ncalls + 1
    /\ UNCHANGED <<now, storeVars, jobVars, nfaults>>
    /\ UNCHANGED nonJobVars

LockRefresh(r, o) ==
    /\ ncalls < MaxLockCalls
    /\ LET res == refresh_lock(locks, r, o, now)
       IN  /\ locks' = res.locks
           /\ lastCall' = [op |-> "refresh", resource_id |-> r, owner_id |-> o,
                           ret |-> res.ret, at |-> now, status |-> NoStatus]
    /\ ncalls' = ncalls + 1
    /\ UNCHANGED <<now, storeVars, jobVars, nfaults>>
    /\ UNCHANGED nonJobVars

LockStatus(r) ==
    /\ ncalls < MaxLockCalls
    /\ lastCall' = [op |-> "status", resource_id |-> r, owner_id |-> NoJob,
                    ret |-> FALSE, at |-> now,
                    status |-> get_lock_status(locks, r, now)]
    /\ ncalls' = ncalls + 1
    /\ UNCHANGED <<now, locks, storeVars, jobVars, nfaults>>
    /\ UNCHANGED nonJobVars

LockNext ==
    \/ \E r \in Resources, o \in Jobs, fault \in BOOLEAN : LockAcquire(r, o, fault)
    \/ \E r \in Resources, o \in Jobs : LockRelease(r, o)
    \/ \E r \in Resources, o \in Jobs : LockRefresh(r, o)
    \/ \E r \in Resources : LockStatus(r)
    \/ Tick

LockSpec == Init /\ [][LockNext]_vars

Next ==
    \/ \E j \in Jobs, t \in Tenants, fault \in BOOLEAN : AcquireStep(j, t, fault)
    \/ \E j \in Jobs, fault \in BOOLEAN : InsertJob(j, fault)
    \/ \E j \in Jobs, kind \in ResponseKinds : FetchPage(j, kind)
    \/ \E j \in Jobs, fault \in BOOLEAN : UpsertTicket(j, fault)
    \/ \E j \in Jobs, fault \in BOOLEAN : WriteFailureLog(j, fault)
    \/ \E j \in Jobs : ReleaseInFinally(j)
    \/ \E j \in Jobs : CompleteJob(j)
    \/ \E j \in Jobs : LogCompleted(j)
    \/ \E j \in Jobs : cancel_job(j)

Spec == Init /\ [][Next]_vars

\* requests issued one after the other: a request starts only once the
\* previous one has returned; cancel_job may still arrive at any moment
SeqNext ==
    \/ \E j \in Jobs, t \in Tenants, fault \in BOOLEAN :
           InFlight = {} /\ AcquireStep(j, t, fault)
    \/ \E j \in Jobs, fault \in BOOLEAN : InsertJob(j, fault)
    \/ \E j \in Jobs, kind \in ResponseKinds : FetchPage(j, kind)
    \/ \E j \in Jobs, fault \in BOOLEAN : UpsertTicket(j, fault)
    \/ \E j \in Jobs, fault \in BOOLEAN : WriteFailureLog(j, fault)
    \/ \E j \in Jobs : ReleaseInFinally(j)
    \/ \E j \in Jobs : CompleteJob(j)
    \/ \E j \in Jobs : LogCompleted(j)
    \/ \E j \in Jobs : cancel_job(j)

SeqSpec == Init /\ [][SeqNext]_vars

\* concurrent requests while time passes
TimedNext ==
    \/ \E j \in Jobs, t \in Tenants, fault \in BOOLEAN : AcquireStep(j, t, fault)
    \/ \E j \in Jobs, fault \in BOOLEAN : InsertJob(j, fault)
    \/ \E j \in Jobs, kind \in ResponseKinds : FetchPage(j, kind)
    \/ \E j \in Jobs, fault \in BOOLEAN : UpsertTicket(j, fault)
    \/ \E j \in Jobs, fault \in BOOLEAN : WriteFailureLog(j, fault)
    \/ \E j \in Jobs : ReleaseInFinally(j)
    \/ \E j \in Jobs : CompleteJob(j)
    \/ \E j \in Jobs : LogCompleted(j)
    \/ \E j \in Jobs : cancel_job(j)
    \/ Tick

TimedSpec == Init /\ [][TimedNext]_vars

\* requests issued one after the other, GET /tickets and the SyncService
\* operations among them
ApiNext ==
    \/ \E j \in Jobs, t \in Tenants, fault \in BOOLEAN :
           InFlight = {} /\ AcquireStep(j, t, fault)
    \/ \E j \in Jobs, fault \in BOOLEAN : InsertJob(j, fault)
    \/ \E j \in Jobs, kind \in ResponseKinds : FetchPage(j, kind)
    \/ \E j \in Jobs, fault \in BOOLEAN : UpsertTicket(j, fault)
    \/ \E j \in Jobs, fault \in BOOLEAN : WriteFailureLog(j, fault)
    \/ \E j \in Jobs : ReleaseInFinally(j)
    \/ \E j \in Jobs : CompleteJob(j)
    \/ \E j \in Jobs : LogCompleted(j)
    \/ \E j \in Jobs : cancel_job(j)
    \/ \E t \in Tenants, status \in StatusFilters, urgency \in UrgencyFilters,
          source \in SourceFilters, page_no \in ListPages, page_size \in PageSizes :
           InFlight = {} /\ ListTickets(t, status, urgency, source, page_no, page_size)
    \/ \E external_ticket \in SyncPayloads, t \in Tenants :
           InFlight = {} /\ SyncTicket(external_ticket, t)
    \/ \E t \in Tenants, external_ids \in SUBSET ExternalIds :
           InFlight = {} /\ DetectDeleted(t, external_ids)
    \/ \E t \in Tenants, external_ids \in SUBSET ExternalIds :
           InFlight = {} /\ MarkDeleted(t, external_ids)

ApiSpec == Init /\ [][ApiNext]_vars

\* uses of the circuit breaker while time passes
BreakerNext ==
    \/ \E fn \in FnKinds : BreakerCall(fn)
    \/ BreakerState
    \/ BreakerReset
    \/ \E st \in {"open", "half_open"}, age \in ForcedAges : ForceState(st, age)
    \/ Tick

BreakerSpec == Init /\ [][BreakerNext]_vars


(***************************************************************************)
(* Properties                                                              *)
(***************************************************************************)

\* a document of distributed_locks is live: locked = true and expires_at > now
Live(doc, t) == doc.locked = TRUE /\ doc.expires_at > t
\* some document of resource r is live
LiveLockOn(coll, r, t) ==
    \E i \in 1 .. Len(coll) : coll[i].resource_id = r /\ Live(coll[i], t)
\* the step is a direct LockService call of the given operation
LockCall(op) == ncalls' = ncalls + 1 /\ lastCall'.op = op
\* job j still holds a locked record of its tenant's resource
HoldsLock(j) ==
    \E i \in 1 .. Len(locks) :
        /\ locks[i].resource_id = LockResource(tenant[j])
        /\ locks[i].owner_id = j
        /\ locks[i].locked = TRUE
\* run_ingestion of job j raised out of its try block, after the job record was inserted
RaisedInLoop(j) ==
    /\ pc[j] = "done"
    /\ result[j].status = "raised"
    /\ j \in DOMAIN ingestion_jobs

\* C1: for every tenant, at most one ingestion_jobs record has status running.
C1_AtMostOneRunning ==
    \A t \in Tenants :
        Cardinality({j \in DOMAIN ingestion_jobs :
                        /\ ingestion_jobs[j].tenant_id = t
                        /\ ingestion_jobs[j].status = "running"}) <= 1

\* C2: acquire_lock(r, o) never returns true while another owner holds a
\* live lock on r.
C2_AcquireExcludesLiveOwner ==
    [][ (LockCall("acquire") /\ lastCall'.ret)
        => ~(\E i \in 1 .. Len(locks) :
                /\ locks[i].resource_id = lastCall'.resource_id
                /\ locks[i].owner_id # lastCall'.owner_id
                /\ Live(locks[i], now)) ]_vars

\* C3: a request that started while another request of the same tenant was
\* in flight, past its acquisition and before its release, is never answered
\* with success.
C3_OneSuccessAmongConcurrent ==
    \A j \in Jobs :
        (rivals[j] # {} /\ pc[j] = "done") => result[j].status # "completed"

\* C4: a run_ingestion call whose acquisition fails returns already_running
\* with job_id None and zero counters, and writes no job, log, ticket or lock
\* record.
C4_FailedAcquireChangesNothing ==
    [][ \A j \in Jobs :
          (pc[j] = "idle" /\ pc'[j] # "idle" /\ ~acquired'[j])
          => /\ pc'[j] = "done"
             /\ result'[j] = [status |-> "already_running", job_id |-> NoJob,
                              new_ingested |-> 0, updated |-> 0, errors |-> 0]
             /\ ingestion_jobs' = ingestion_jobs
             /\ ingestion_logs' = ingestion_logs
             /\ tickets' = tickets
             /\ locks' = locks ]_vars
\* a call was refused while records of its tenant's lock exist
C4_Witness ==
    \E j \in Jobs :
        /\ pc[j] = "done"
        /\ ~acquired[j]
        /\ result[j].status = "already_running"
        /\ \E i \in 1 .. Len(locks) : locks[i].resource_id = LockResource(tenant[j])

\* C5: a run_ingestion execution that acquired the lock has released it when
\* it exits.
C5_LockReleasedOnExit ==
    \A j \in Jobs : (pc[j] = "done" /\ acquired[j]) => ~HoldsLock(j)

\* C6: a job record that is terminal never changes status again.
C6_TerminalStatusIsFinal ==
    [][ \A j \in DOMAIN ingestion_jobs :
          ingestion_jobs[j].status # "running"
          => ingestion_jobs'[j].status = ingestion_jobs[j].status ]_vars

\* C7: when an exception escapes the page loop, the job record ends failed,
\* the lock is released and the job's log entry is one entry with status failed.
C7_FatalErrorEndsFailed ==
    \A j \in Jobs :
        RaisedInLoop(j)
        => /\ ingestion_jobs[j].status = "failed"
           /\ ~HoldsLock(j)
           /\ (ingestion_logs[j] # << >> => ingestion_logs[j] = << "failed" >>)

\* C8: a job for which cancel_job returned true keeps status cancelled, and
\* its lock is released when run_ingestion exits.
C8_CancelledJobEndsCancelled ==
    \A j \in cancelOk :
        /\ ingestion_jobs[j].status = "cancelled"
        /\ (pc[j] = "done" => ~HoldsLock(j))

\* C9: acquire_lock(r, o) on a resource without a live lock returns true and
\* leaves the record of r with owner_id = o, locked = true, acquired_at = now
\* and expires_at = now + 60.
C9_AcquireWhenNoLiveLock ==
    [][ (/\ LockCall("acquire")
         /\ nfaults' = nfaults
         /\ ~LiveLockOn(locks, lastCall'.resource_id, now))
        => /\ lastCall'.ret
           /\ LET i == FirstMatch({n \in Docs(locks') :
                                       locks'[n].resource_id = lastCall'.resource_id})
              IN  /\ i # 0
                  /\ locks'[i].owner_id = lastCall'.owner_id
                  /\ locks'[i].locked = TRUE
                  /\ locks'[i].acquired_at = now
                  /\ locks'[i].expires_at = now + LOCK_TTL_SECONDS ]_vars

\* C10 as stated: release_lock(r, o) returns true iff a record of r has
\* owner_id = o, and a call that returns false changes nothing.
C10_ReleaseIffOwnerMatches ==
    [][ LockCall("release")
        => /\ lastCall'.ret <=>
                 (\E i \in 1 .. Len(locks) :
                     /\ locks[i].resource_id = lastCall'.resource_id
                     /\ locks[i].owner_id = lastCall'.owner_id)
           /\ (~lastCall'.ret => locks' = locks) ]_vars

\* C10 amended: release_lock(r, o) returns true iff the first record of r
\* with owner_id = o has locked = true, which it sets to false; otherwise
\* (no record of r is owned by o, or o's record is already released) the call
\* returns false and changes nothing; no record of another owner ever changes.
C10_ReleaseByOwnerOfLockedRecord ==
    [][ LockCall("release")
        => LET i == FirstMatch({n \in Docs(locks) :
                                    /\ locks[n].resource_id = lastCall'.resource_id
                                    /\ locks[n].owner_id = lastCall'.owner_id})
           IN  /\ lastCall'.ret <=> (i # 0 /\ locks[i].locked = TRUE)
               /\ (~lastCall'.ret => locks' = locks)
               /\ Len(locks') = Len(locks)
               /\ \A k \in 1 .. Len(locks) :
                     IF k = i
                     THEN /\ locks'[k].owner_id = locks[k].owner_id
                          /\ locks'[k].expires_at = locks[k].expires_at
                          /\ locks'[k].locked = FALSE
                     ELSE locks'[k] = locks[k] ]_vars
\* an owner whose expired lock was reclaimed by another owner called release
C10_Witness ==
    /\ lastCall.op = "release"
    /\ ~lastCall.ret
    /\ \E i \in 1 .. Len(locks) :
          /\ locks[i].resource_id = lastCall.resource_id
          /\ locks[i].owner_id # lastCall.owner_id
          /\ locks[i].locked = TRUE
    /\ ~(\E i \in 1 .. Len(locks) :
          /\ locks[i].resource_id = lastCall.resource_id
          /\ locks[i].owner_id = lastCall.owner_id)

\* owner o holds a live record of resource r
LiveOwner(coll, r, o, t) ==
    \E i \in 1 .. Len(coll) :
        /\ coll[i].resource_id = r
        /\ coll[i].owner_id = o
        /\ Live(coll[i], t)

\* C11: refresh_lock(r, o) by anyone who is not the live owner of r (owner_id
\* = o, locked = true and expires_at > now), the owner of an expired lock
\* included, returns false and leaves every record unchanged.
C11_RefreshOnlyByLiveOwner ==
    [][ (/\ LockCall("refresh")
         /\ ~LiveOwner(locks, lastCall'.resource_id, lastCall'.owner_id, now))
        => /\ ~lastCall'.ret
           /\ locks' = locks ]_vars

\* the ticket documents of tenant t
TicketsOf(coll, t) == {n \in Docs(coll) : coll[n].tenant_id = t}
\* a run_ingestion call for tenant t has returned completed
CompletedRun(t) ==
    \E j \in Jobs : pc[j] = "done" /\ result[j].status = "completed" /\ tenant[j] = t

\* C12: once a run for tenant T has completed, no step of a later run changes
\* the number of ticket documents of T (the upstream is unchanged), and no two
\* documents ever share (tenant_id, external_id).
C12_IngestionIdempotent ==
    [][ /\ \A t \in Tenants :
             CompletedRun(t)
             => Cardinality(TicketsOf(tickets', t)) = Cardinality(TicketsOf(tickets, t))
        /\ \A a \in Docs(tickets'), b \in Docs(tickets') :
             (/\ tickets'[a].tenant_id = tickets'[b].tenant_id
              /\ tickets'[a].external_id = tickets'[b].external_id) => a = b ]_vars
\* two runs of one tenant have completed, the later one finding every ticket stored
C12_Witness ==
    \E j \in Jobs, k \in Jobs :
        /\ j # k
        /\ tenant[j] = tenant[k]
        /\ pc[j] = "done" /\ result[j].status = "completed"
        /\ pc[k] = "done" /\ result[k].status = "completed"
        /\ result[j].new_ingested = NumPages
        /\ result[k].new_ingested = 0
        /\ Cardinality(TicketsOf(tickets, tenant[j])) = NumPages

\* the step is a call of list_tickets or of the given SyncService operation
ApiStep(op) == lastApi'.seq # lastApi.seq /\ lastApi'.op = op
\* the stored document of (tenant_id, external_id), 0 when there is none
StoredAt(coll, tenant_id, external_id) ==
    FirstMatch({n \in Docs(coll) : TicketFilter(coll[n], tenant_id, external_id)})
\* the step is the page loop's write of job j's current ticket
UpsertStep(j) == pc[j] = "upsert" /\ pending'[j] # pending[j]

\* C13: processing a payload whose updated_at is not newer than that of the
\* stored ticket, by the page loop's upsert or by sync_ticket, reports
\* unchanged (not counted in updated) and leaves the stored tickets and the
\* history as they are.
C13_StaleInputIsNoOp ==
    [][ /\ \A j \in Jobs :
             (/\ UpsertStep(j)
              /\ LET i == StoredAt(tickets, tenant[j], Head(pending[j]).id)
                 IN  i # 0 /\ Head(pending[j]).updated_at <= tickets[i].updated_at)
             => /\ counters'[j].updated = counters[j].updated
                /\ tickets' = tickets
                /\ ticket_history' = ticket_history
        /\ (/\ ApiStep("sync_ticket")
            /\ LET i == StoredAt(tickets, lastApi'.tenant_id, lastApi'.arg.id)
               IN  i # 0 /\ lastApi'.arg.updated_at <= tickets[i].updated_at)
           => /\ lastApi'.ret.action = "unchanged"
              /\ tickets' = tickets
              /\ ticket_history' = ticket_history ]_vars

\* C15: for every stored (tenant_id, external_id), no step lowers the stored
\* updated_at.
C15_UpdatedAtNeverDecreases ==
    [][ \A n \in Docs(tickets) :
          LET i == StoredAt(tickets', tickets[n].tenant_id, tickets[n].external_id)
          IN  i # 0 => tickets'[i].updated_at >= tickets[n].updated_at ]_vars


\* C14: every ticket returned by the ticket listing for tenant T, whatever the
\* filters and the page, has tenant_id = T and no deleted_at.
C14_ListingScopedToTenant ==
    lastApi.op = "list_tickets"
    => \A n \in 1 .. Len(lastApi.ret) :
         /\ lastApi.ret[n].tenant_id = lastApi.tenant_id
         /\ Get(lastApi.ret[n], "deleted_at") = None

\* the stored document of (tenant_id, external_id) took the payload's values
TookUpstreamValues(doc, external_ticket) ==
    \A f \in {"subject", "message", "status", "updated_at"} :
        Get(doc, f) = Get(external_ticket, f)
SyncedFields == {"subject", "message", "status", "urgency", "sentiment", "requires_action"}

\* C16: sync_ticket on a stored ticket with a payload whose updated_at is
\* strictly newer returns action updated, the stored fields take the upstream
\* values, and exactly one history entry with action updated is recorded whose
\* changes are the differing fields among the six synced ones, each with its
\* old and new value.
C16_NewerPayloadIsApplied ==
    [][ (/\ ApiStep("sync_ticket")
         /\ LET i == StoredAt(tickets, lastApi'.tenant_id, lastApi'.arg.id)
            IN  i # 0 /\ lastApi'.arg.updated_at > tickets[i].updated_at)
        => LET i == StoredAt(tickets, lastApi'.tenant_id, lastApi'.arg.id)
               k == StoredAt(tickets', lastApi'.tenant_id, lastApi'.arg.id)
           IN  /\ lastApi'.ret.action = "updated"
               /\ k # 0
               /\ TookUpstreamValues(tickets'[k], lastApi'.arg)
               /\ Len(ticket_history') = Len(ticket_history) + 1
               /\ LET h == ticket_history'[Len(ticket_history')]
                  IN  /\ h.action = "updated"
                      /\ h.tenant_id = lastApi'.tenant_id
                      /\ h.ticket_id = lastApi'.arg.id
                      /\ h.changes = compute_changes(tickets[i], tickets'[k], SyncedFields) ]_vars

\* T's stored, non-deleted external_ids that are not in the upstream id set
MissingUpstream(coll, tenant_id, external_ids) ==
    {coll[n].external_id : n \in {m \in TicketsOf(coll, tenant_id) :
        /\ Get(coll[m], "deleted_at") = None
        /\ coll[m].external_id \notin external_ids}}
\* the documents mark_deleted(tenant_id, ids) has to transition
ToDelete(coll, tenant_id, ids) ==
    {n \in TicketsOf(coll, tenant_id) :
        coll[n].external_id \in ids /\ Get(coll[n], "deleted_at") = None}

\* C17: detect_deleted_tickets(T, U) returns exactly T's stored, non-deleted
\* external_ids not in U; mark_deleted(T, ids) sets deleted_at on each of those
\* not yet deleted, records one deleted history entry per ticket it
\* transitions, returns the number transitioned, and leaves every other
\* ticket as it is.
C17_DeletionSync ==
    [][ /\ ApiStep("detect_deleted_tickets")
           => lastApi'.ret = MissingUpstream(tickets, lastApi'.tenant_id, lastApi'.arg)
        /\ ApiStep("mark_deleted")
           => LET hit == ToDelete(tickets, lastApi'.tenant_id, lastApi'.arg)
              IN  /\ lastApi'.ret = Cardinality(hit)
                  /\ Len(tickets') = Len(tickets)
                  /\ \A n \in Docs(tickets) :
                       IF n \in hit
                       THEN Get(tickets'[n], "deleted_at") # None
                       ELSE tickets'[n] = tickets[n]
                  /\ Len(ticket_history') = Len(ticket_history) + Cardinality(hit) ]_vars

\* the step is a use of the breaker of the given kind
BreakerStep(op) == lastBreaker'.seq # lastBreaker.seq /\ lastBreaker'.op = op
\* the number of failures among recorded outcomes
Failures(results) == Cardinality({i \in 1 .. Len(results) : ~results[i]})

\* C18: a call made while the breaker is OPEN and the timeout has not elapsed
\* since opened_at does not invoke the function and fails with
\* CircuitBreakerOpenError carrying a retry_after hint.
C18_OpenRejectsCalls ==
    (/\ lastBreaker.op = "call"
     /\ lastBreaker.state_before = "open"
     /\ lastBreaker.at - lastBreaker.opened_before < timeout_seconds)
    => /\ ~lastBreaker.invoked
       /\ lastBreaker.outcome = "CircuitBreakerOpenError"
       /\ lastBreaker.retry_after > 0

\* C19: a call made while CLOSED leaves the breaker OPEN with opened_at = now
\* exactly when the last window_size outcomes, that call's included, hold at
\* least failure_threshold failures; otherwise the breaker stays CLOSED.
C19_OpensAtThreshold ==
    [][ (BreakerStep("call") /\ cb_state = "closed")
        => IF ~offered'[Len(offered')] /\ Failures(offered') >= failure_threshold
           THEN cb_state' = "open" /\ cb_opened_at' = time_time
           ELSE cb_state' = "closed" ]_vars

\* C20: at a call or a state read made on an OPEN breaker, the breaker becomes
\* HALF_OPEN if timeout_seconds have elapsed since opened_at and stays OPEN if
\* they have not.
C20_HalfOpenAfterTimeout ==
    [][ ((BreakerStep("call") \/ BreakerStep("state")) /\ cb_state = "open")
        => IF time_time - cb_opened_at >= timeout_seconds
           THEN cb_state' = "half_open"
           ELSE cb_state' = "open" ]_vars

\* C21: a call made in HALF_OPEN with a function that succeeds invokes it,
\* returns its result to the caller and leaves the breaker CLOSED.
C21_HalfOpenSuccessCloses ==
    [][ (BreakerStep("call") /\ cb_state = "half_open" /\ lastBreaker'.fn = "ok")
        => /\ lastBreaker'.invoked
           /\ lastBreaker'.outcome = "returned result"
           /\ cb_state' = "closed" ]_vars

\* C22: a call made in HALF_OPEN with a function that fails leaves the breaker
\* OPEN with opened_at = now.
C22_HalfOpenFailureReopens ==
    [][ (BreakerStep("call") /\ cb_state = "half_open" /\ lastBreaker'.fn = "raises")
        => /\ cb_state' = "open"
           /\ cb_opened_at' = time_time ]_vars

\* C28: while a job's record has status running, the job owns a locked record
\* of ingest:T: the lock is not released before the record has left running.
C28_TerminalStatusUnderLock ==
    \A j \in Jobs :
        (j \in DOMAIN ingestion_jobs /\ ingestion_jobs[j].status = "running")
        => HoldsLock(j)

\* job j is inside its page loop with its record still running
RunningInLoop(j) ==
    /\ pc[j] \in {"fetch", "upsert"}
    /\ j \in DOMAIN ingestion_jobs
    /\ ingestion_jobs[j].status = "running"

\* C29: as long as job j is running its page loop, a record of ingest:T owned
\* by j is live (locked and not expired), however long the run takes.
C29_LockLiveWhileRunning ==
    \A j \in Jobs :
        RunningInLoop(j) => LiveOwner(locks, LockResource(tenant[j]), j, now)

\* C30: distributed_locks holds at most one record per resource_id.
C30_OneRecordPerResource ==
    \A a, b \in Docs(locks) : locks[a].resource_id = locks[b].resource_id => a = b

\* uses of the rate limiter while time passes
RateNext ==
    \/ RateAcquire
    \/ RateStatus
    \/ Tick

RateSpec == Init /\ [][RateNext]_vars

\* the step is a use of the rate limiter of the given kind
RateStep(op) == lastRate'.seq # lastRate.seq /\ lastRate'.op = op
\* the number of grants that lie in the window trailing time t
GrantsInWindow(times, t) ==
    Cardinality({i \in 1 .. Len(times) : t - times[i] <= window_seconds})

\* C24: acquire() returns 0 exactly when fewer than requests_per_minute grants
\* lie in the trailing window, and a positive wait otherwise.
C24_AcquireRespectsLimit ==
    [][ RateStep("acquire")
        => IF GrantsInWindow(granted, time_time) < requests_per_minute
           THEN lastRate'.wait = 0
           ELSE lastRate'.wait > 0 ]_vars

\* C25: get_status() reports current_requests equal to the number of grants
\* within the trailing window and remaining = limit - current_requests, not
\* negative.
C25_StatusCountsGrants ==
    [][ RateStep("get_status")
        => /\ lastRate'.status.current_requests = GrantsInWindow(granted, time_time)
           /\ lastRate'.status.remaining = requests_per_minute - lastRate'.status.current_requests
           /\ lastRate'.status.remaining >= 0 ]_vars

\* record_history and get_ticket_history calls, issued one at a time, while time passes
HistoryNext ==
    \/ \E ticket_id \in HistoryTickets, t \in Tenants, action \in HistoryActions :
           RecordHistory(ticket_id, t, action, ChangesOf(action))
    \/ \E ticket_id \in HistoryTickets, t \in Tenants, limit \in HistoryLimits :
           GetTicketHistory(ticket_id, t, limit)
    \/ Tick

HistorySpec == Init /\ [][HistoryNext]_vars

\* the stats endpoint over a collection filled directly
StatsNext ==
    \/ \E doc \in SeedDocs(Len(tickets) + 1) : SeedTicket(doc)
    \/ \E t \in Tenants : GetTenantStats(t)

StatsSpec == Init /\ [][StatsNext]_vars

\* coll extends old at its end and keeps every entry of old as it was
Extends(coll, old) ==
    /\ Len(coll) >= Len(old)
    /\ \A i \in 1 .. Len(old) : coll[i] = old[i]

LiveTickets(coll, tenant_id) ==
    {n \in TicketsOf(coll, tenant_id) : "deleted_at" \notin DOMAIN coll[n]}
\* the sum of the counts of a grouping
SumCounts(groups) ==
    LET S[ss \in SUBSET DOMAIN groups] ==
            IF ss = {} THEN 0
            ELSE LET x == CHOOSE x \in ss : TRUE IN groups[x] + S[ss \ {x}]
    IN  S[DOMAIN groups]

\* C27: get_tenant_stats(T) counts only T's tickets that are not soft-deleted:
\* total_tickets is their number, the by_status counts sum to total_tickets,
\* and urgency_high_ratio is high_count / total, or 0 when total = 0.
C27_StatsScopedAndConsistent ==
    [][ lastStats'.seq # lastStats.seq
        => LET T == lastStats'.tenant_id
               ret == lastStats'.ret
               live == LiveTickets(tickets, T)
               high == {n \in live : tickets[n].urgency = "high"}
           IN  /\ ret.total_tickets = Cardinality(live)
               /\ SumCounts(ret.by_status) = ret.total_tickets
               /\ \A s \in DOMAIN ret.by_status :
                    ret.by_status[s] = Cardinality({n \in live : tickets[n].status = s})
               /\ ret.urgency_high_ratio =
                    IF Cardinality(live) = 0 THEN ZeroRatio
                    ELSE Ratio(Cardinality(high), Cardinality(live)) ]_vars

\* stats were read for a tenant with a live high-urgency ticket while the
\* collection also holds a soft-deleted ticket of that tenant and a ticket of
\* another tenant
C27_Witness ==
    /\ lastStats.seq = 1
    /\ lastStats.ret = get_tenant_stats(tickets, lastStats.tenant_id)
    /\ lastStats.ret.total_tickets = 1
    /\ lastStats.ret.urgency_high_ratio = Ratio(1, 1)
    /\ \E n \in TicketsOf(tickets, lastStats.tenant_id) : "deleted_at" \in DOMAIN tickets[n]
    /\ \E n \in Docs(tickets) : tickets[n].tenant_id # lastStats.tenant_id

\* C31: a page request answered with 429 is repeated for the same page: the
\* job stays at its request with the page index unchanged, the answer is not
\* iterated as page content and no exception leaves the loop.
C31_RetrySamePageOn429 ==
    [][ \A j \in Jobs :
          FetchPage(j, "rate_limited")
          => /\ pc'[j] = "fetch"
             /\ page'[j] = page[j]
             /\ pending'[j] = pending[j] ]_vars

\* the upstream page requests of job j that were answered with a page so
\* far in its loop: pages 1 .. page - 1, and page itself while its tickets
\* are being stored
PagesAnswered(j) ==
    IF pc[j] = "upsert" THEN page[j]
    ELSE IF pc[j] = "fetch" THEN page[j] - 1
    ELSE 0
RECURSIVE SumPagesAnswered(_)
SumPagesAnswered(S) ==
    IF S = {} THEN 0
    ELSE LET j == CHOOSE k \in S : TRUE
         IN  PagesAnswered(j) + SumPagesAnswered(S \ {j})

\* C32: every upstream page request of run_ingestion has its own grant of the
\* one shared RateLimiter: the jobs in their loops never have more answered
\* page requests than acquire() has granted.
C32_RequestsNeedGrants ==
    SumPagesAnswered(Jobs) <= Len(granted)

\* C33: a failure while one ticket of a page is processed does not leave the
\* page loop: the job goes on with the next ticket or the next page and its
\* errors counter grows by one.
C33_TicketFailureContinues ==
    [][ \A j \in Jobs :
          UpsertTicket(j, TRUE)
          => /\ pc'[j] \in {"upsert", "fetch"}
             /\ pending'[j] = Tail(pending[j])
             /\ counters'[j].errors = counters[j].errors + 1 ]_vars

\* C34: run_ingestion requests the pages of a finite upstream in order and
\* none beyond the last: every page request is for one of the pages the
\* upstream holds, and a step moves the page index by at most one.
C34_PaginationStopsAtLastPage ==
    [][ \A j \in Jobs :
          /\ (\E kind \in ResponseKinds : FetchPage(j, kind)) => page[j] \in 1 .. NumPages
          /\ pc[j] \in {"fetch", "upsert"} => page'[j] \in {page[j], page[j] + 1} ]_vars

\* the record of job j has a terminal status
TerminalJob(j) ==
    /\ j \in DOMAIN ingestion_jobs
    /\ ingestion_jobs[j].status \in {"completed", "failed", "cancelled"}

\* C35: no job has more than one ingestion_logs entry, and a job whose record
\* is terminal has exactly one, of that status (a completing run is given the
\* step between its two writes, the job update and the log insert).
C35_OneLogPerTerminalJob ==
    \A j \in Jobs :
        /\ Len(ingestion_logs[j]) <= 1
        /\ (TerminalJob(j) /\ pc[j] # "log")
           => ingestion_logs[j] = << ingestion_jobs[j].status >>

\* C36: _ingestion_cache does not grow with the runs executed: it holds no
\* more entries than there are runs in progress, and no entry holds tickets.
C36_CacheDoesNotGrow ==
    /\ Cardinality(DOMAIN ingestion_cache) <= Cardinality(InFlight)
    /\ \A key \in DOMAIN ingestion_cache : ingestion_cache[key].tickets = << >>

\* C38: the breaker's attributes change only under its mutex: reset(), which
\* assigns all of them, and a state read that takes the breaker from OPEN to
\* HALF_OPEN run while holding the lock.
C38_MutationsUnderMutex ==
    [][ (\/ BreakerStep("reset")
         \/ BreakerStep("state") /\ cb_state' # cb_state)
        => lastBreaker'.under_lock ]_vars

\* the derived labels of a stored ticket
Labels(doc) ==
    [urgency |-> doc.urgency, sentiment |-> doc.sentiment,
     requires_action |-> doc.requires_action]
\* subjects an upstream ticket may carry
TwinSubjects == {{"hello"}, {"refund"}, {"broken"}, {"lawsuit", "angry"}}

\* C39: the labels the page loop stores for a ticket depend on its message
\* only: an upstream ticket with the same message and any other subject is
\* stored with the same urgency, sentiment and requires_action.
C39_LabelsIgnoreSubject ==
    \A n \in Docs(tickets), subject \in TwinSubjects :
        LET doc == tickets[n]
            twin == [id |-> doc.external_id, subject |-> subject,
                     message |-> doc.message, status |-> doc.status,
                     source |-> doc.source, updated_at |-> 0]
        IN  Labels(TicketDoc(doc.tenant_id, twin, doc.updated_at)) = Labels(doc)

\* C40: the lock status answered for a tenant reports locked = true exactly
\* when a live lock (locked = true and expires_at > now) is held on the
\* tenant's resource.
C40_StatusReportsLiveLock ==
    [][ \A t \in Tenants :
          (LockCall("status") /\ lastCall'.resource_id = LockResource(t))
          => (route_get_lock_status(locks, t, now).locked
              <=> LiveLockOn(locks, LockResource(t), now)) ]_vars

=========================================================================
